---- MODULE Spec2Model ----
(***************************************************************************)
(* Model of export_from_Slicer.py: main's batch loop over the case         *)
(* directories, export_segmentation's per-segment writer dispatch, and the *)
(* state they touch: the destination directory, the summary sinks, the     *)
(* caller's skip-list object and the engine's shared scene.                *)
(*                                                                         *)
(* Case ids are naturals (directory names of one width sort like numbers); *)
(* a segment id is the segment's index; a string that is compared or       *)
(* normalised is a sequence of one-character strings.                      *)
(***************************************************************************)
EXTENDS Integers, Sequences, FiniteSets, TLC

VARIABLES
    pc,             \* position in main
    run,            \* 1 in the first call of main, 2 in the second
    calls_left,     \* calls of main the caller still makes after this one
    export_type,    \* main's export_type argument (after line 103: lowered)
    use_pandas,     \* main's use_pandas argument
    debug,          \* main's debug argument
    skip_image_id,  \* the caller's skip-list object, mutated in place
    listing,        \* data_path.iterdir(): entries in the order the OS gives
    cases,          \* per case directory: the segmentation file and what the engine makes of it
    writer,         \* the writer object picked on lines 104-113
    dest,           \* save_path on disk: [exists, files]
    log_file,       \* <save_path.name>__log.log on disk
    xlsx_file,      \* <save_path.name>__log.xlsx on disk
    df,             \* DataFrame rows <<patient_id, n_segment>>
    f_log,          \* lines written to f_log
    patient_ids,    \* line 134
    idx,            \* index into patient_ids of the loop's next case
    count,          \* line 138
    status,         \* _status, line 161: <<>> while unbound, else <<value>>
    scene,          \* names of the segmentation nodes in slicer.mrmlScene
    view,           \* vtkMRMLViewNode1: [axis_labels, box]
    raised,         \* the exception that ended main and where it was raised
    entry,          \* what the call of main found: skip-list, directory, summaries, scene
    skip0,          \* the skip-list as the caller built it
    invoked,        \* history: cases export_segmentation was called for, this call
    skipped,        \* history: cases the skip branch took, this call
    prev_skipped    \* history: cases the skip branch took in the previous call

vars == <<pc, run, calls_left, export_type, use_pandas, debug, skip_image_id,
          listing, cases, writer, dest, log_file, xlsx_file, df, f_log,
          patient_ids, idx, count, status, scene, view, raised, entry, skip0,
          invoked, skipped, prev_skipped>>

----------------------------------------------------------------------------
(* Bounds of the model *)

MaxCases == 2
MaxSegs == 1
MaxSkip == 2
MaxDebugCases == 12

(* Program constant: the debug cap of line 172 *)
DebugCap == 10

----------------------------------------------------------------------------
(* Values *)

NoFile == "absent"
NoExc == "none"
NoWriter == "none"
\* line 144 and line 29
STATUS_SKIPPED == -2
STATUS_FAILED == -1

Min(a, b) == IF a <= b THEN a ELSE b

RECURSIVE CountOcc(_, _)
CountOcc(s, x) ==
    IF s = <<>> THEN 0
    ELSE (IF Head(s) = x THEN 1 ELSE 0) + CountOcc(Tail(s), x)

Range(s) == {s[i] : i \in 1..Len(s)}

\* sequences over S of length at most n
SeqsUpTo(S, n) == UNION {[1..k -> S] : k \in 0..n}

----------------------------------------------------------------------------
(* str.lower and the writer selection, lines 103-113 *)

LowerChar(c) ==
    CASE c = "O" -> "o" [] c = "B" -> "b" [] c = "J" -> "j"
      [] c = "S" -> "s" [] c = "T" -> "t" [] c = "L" -> "l"
      [] c = "P" -> "p" [] c = "Y" -> "y" [] c = "G" -> "g"
      [] c = "F" -> "f" [] c = "X" -> "x"
      [] OTHER -> c

Lower(s) == [i \in 1..Len(s) |-> LowerChar(s[i])]

NormaliseAsIs(t) == t

Normalise(t) == Lower(t)

PickWriter(t) ==
    IF t = <<"o", "b", "j">> THEN "vtkOBJExporter"
    ELSE IF t = <<"s", "t", "l">> THEN "vtkSTLWriter"
    ELSE IF t = <<"p", "l", "y">> THEN "vtkPLYWriter"
    ELSE IF t = <<"g", "l", "t", "f">> THEN "vtkGLTFExporter"
    ELSE NoWriter

----------------------------------------------------------------------------
(* create_directory, lines 90-93 *)

CreateDirectoryMerge(d) == [d EXCEPT !.exists = TRUE]

CreateDirectory(d) ==
    LET removed == IF d.exists THEN [exists |-> FALSE, files |-> {}] ELSE d
    IN  [removed EXCEPT !.exists = TRUE]

----------------------------------------------------------------------------
(* line 134: sorted names of the entries that are directories *)

ListedOrder(l) ==
    LET RECURSIVE Dirs(_)
        Dirs(s) == IF s = <<>> THEN <<>>
                   ELSE IF Head(s).is_dir THEN <<Head(s).name>> \o Dirs(Tail(s))
                   ELSE Dirs(Tail(s))
    IN  Dirs(l)

SortedPatientIds(l) == SortSeq(ListedOrder(l), LAMBDA a, b : a < b)

----------------------------------------------------------------------------
(* list.remove and the membership test, lines 141-142 *)

RemoveNone(s, x) == s

RECURSIVE RemoveAll(_, _)
RemoveAll(s, x) ==
    IF s = <<>> THEN <<>>
    ELSE IF Head(s) = x THEN RemoveAll(Tail(s), x)
    ELSE <<Head(s)>> \o RemoveAll(Tail(s), x)

RECURSIVE Remove(_, _)
Remove(s, x) ==
    IF s = <<>> THEN <<>>
    ELSE IF Head(s) = x THEN Tail(s)
    ELSE <<Head(s)>> \o Remove(Tail(s), x)

InList(x, s) == \E i \in 1..Len(s) : s[i] = x

----------------------------------------------------------------------------
(* export_segmentation, lines 22-87 *)

\* line 150: data_path / patient_id / "segmentations" / "<label>.nii.gz"
SegPath(patient_id) == <<"data_path", patient_id, "segmentations", "label.nii.gz">>

\* line 23: file_path.parents[1].name
NodeName(file_path) == file_path[Len(file_path) - 2]

\* line 153: seg_path.exists()
SegPathExists(file_path) == cases[file_path[2]].has_seg

\* line 41
IsSceneExporter(w) == w \in {"vtkOBJExporter", "vtkGLTFExporter"}

\* lines 51-85: the loop over the segments; segs[i] is what
\* GetClosedSurfaceRepresentation returns for the i-th segment
RECURSIVE SegmentLoop(_, _, _, _, _)
SegmentLoop(name, segs, w, i, written) ==
    IF i > Len(segs) THEN [exc |-> NoExc, files |-> written]
    ELSE IF ~segs[i] THEN SegmentLoop(name, segs, w, i + 1, written)
    ELSE IF w = "vtkSTLWriter"
         THEN SegmentLoop(name, segs, w, i + 1, written \cup {<<name, i, "stl">>})
    ELSE IF w = "vtkOBJExporter"
         THEN SegmentLoop(name, segs, w, i + 1,
                          written \cup {<<name, i, "obj">>, <<name, i, "mtl">>})
    ELSE IF w = "vtkPLYWriter"
         THEN SegmentLoop(name, segs, w, i + 1, written \cup {<<name, i, "ply">>})
    ELSE [exc |-> "ValueError", files |-> written]

\* what slicer.util.loadSegmentation can give for the path: the node of the
\* file, or for a path that does not exist either an exception or a node no
\* closed surface can be made of
LoadOutcomes(file_path) ==
    IF SegPathExists(file_path)
    THEN {[exc |-> NoExc, closed |-> cases[file_path[2]].closed,
           segs |-> cases[file_path[2]].segs]}
    ELSE {[exc |-> "RuntimeError", closed |-> FALSE, segs |-> <<>>],
          [exc |-> NoExc, closed |-> FALSE, segs |-> <<>>]}

\* lines 23-87 after the load: the exception or the returned status (a
\* sequence of one value; none when an exception leaves the function), the
\* files written, the view node and the node left in the scene
ExportSegmentationResult(file_path, loaded, w, v) ==
    LET name == NodeName(file_path)
        n_segments == Len(loaded.segs)
        v2 == IF IsSceneExporter(w)
              THEN [axis_labels |-> FALSE, box |-> FALSE] ELSE v
        loop == SegmentLoop(name, loaded.segs, w, 1, {})
    IN  IF loaded.exc # NoExc
        THEN [exc |-> loaded.exc, status |-> <<>>, files |-> {}, view |-> v,
              scene |-> {}]
        ELSE IF ~loaded.closed
        THEN [exc |-> NoExc, status |-> <<STATUS_FAILED>>, files |-> {}, view |-> v,
              scene |-> {name}]
        ELSE IF n_segments = 0
        THEN [exc |-> NoExc, status |-> <<0>>, files |-> {}, view |-> v,
              scene |-> {name}]
        ELSE [exc |-> loop.exc,
              status |-> IF loop.exc = NoExc THEN <<n_segments>> ELSE <<>>,
              files |-> loop.files, view |-> v2, scene |-> {name}]

----------------------------------------------------------------------------
(* slicer.mrmlScene.Clear(), line 169, and the debug cap, line 172 *)

SceneKept(s) == s

SceneClear(s) == {}

DebugStopAtCap(d, c) == d /\ c >= DebugCap

DebugStop(d, c) == d /\ c > DebugCap

----------------------------------------------------------------------------
(* The inputs *)

ExportTypes ==
    { <<"o", "b", "j">>, <<"S", "t", "L">>, <<"p", "l", "y">>,
      <<"G", "L", "T", "F">>, <<"f", "b", "x">> }

DebugExportTypes ==
    { <<"S", "t", "L">>, <<"g", "l", "t", "f">>, <<"f", "b", "x">> }

\* a case directory: no segmentation file; or a file of which no closed
\* surface can be made; or a file with its segments
CaseKinds ==
    {[has_seg |-> FALSE, closed |-> FALSE, segs |-> <<>>],
     [has_seg |-> TRUE, closed |-> FALSE, segs |-> <<>>]}
    \cup {[has_seg |-> TRUE, closed |-> TRUE, segs |-> s] :
            s \in SeqsUpTo(BOOLEAN, MaxSegs)}

\* the ids a skip-list names: the first two cases (a case the dataset does
\* not have when it is smaller), or the first case and the one at the cap
SkipIds == {1, 2}
DebugSkipIds == {1, DebugCap + 1}

\* iterdir order is not sorted: the directories come last-first, after a
\* plain file whose name is not a case
Listing(n) ==
    <<[name |-> 0, is_dir |-> FALSE]>>
    \o [i \in 1..n |-> [name |-> n + 1 - i, is_dir |-> TRUE]]

StaleDest == [exists |-> TRUE, files |-> {<<1, 1, "stl">>, <<1, 1, "obj">>}]
StaleLog == <<<<1, "exported", 1>>>>

InitCommon ==
    /\ pc = "start"
    /\ run = 1
    /\ skip0 = skip_image_id
    /\ writer = NoWriter
    /\ xlsx_file = NoFile
    /\ df = <<>>
    /\ f_log = <<>>
    /\ patient_ids = <<>>
    /\ idx = 1
    /\ count = 0
    /\ status = <<>>
    /\ scene = {}
    /\ view = [axis_labels |-> TRUE, box |-> TRUE]
    /\ raised = [exc |-> NoExc, at |-> "nowhere"]
    /\ entry = [export_type |-> export_type, skip |-> skip_image_id,
                dest |-> dest, log_file |-> log_file, xlsx_file |-> xlsx_file,
                scene |-> scene]
    /\ invoked = {}
    /\ skipped = {}
    /\ prev_skipped = {}

\* either a prior run left its directory and log, or the caller calls twice
InitDisk ==
    \E prior \in BOOLEAN :
        /\ dest = IF prior THEN StaleDest ELSE [exists |-> FALSE, files |-> {}]
        /\ log_file = IF prior THEN StaleLog ELSE NoFile
        /\ calls_left = IF prior THEN 0 ELSE 1

Init ==
    /\ \E n \in 0..MaxCases :
        /\ listing = Listing(n)
        /\ cases \in [1..n -> CaseKinds]
    /\ skip_image_id \in SeqsUpTo(SkipIds, MaxSkip)
    /\ export_type \in ExportTypes
    /\ use_pandas \in BOOLEAN
    /\ debug = FALSE
    /\ InitDisk
    /\ InitCommon

\* the datasets large enough for the debug cap: the odd cases of one kind,
\* the even cases of one kind
InitDebug ==
    /\ \E n \in (MaxDebugCases - 1)..MaxDebugCases :
        /\ listing = Listing(n)
        /\ \E odd \in CaseKinds, even \in CaseKinds :
              cases = [i \in 1..n |-> IF i % 2 = 1 THEN odd ELSE even]
    /\ skip_image_id \in SeqsUpTo(DebugSkipIds, MaxSkip)
    /\ export_type \in DebugExportTypes
    /\ use_pandas \in BOOLEAN
    /\ debug \in BOOLEAN
    /\ InitDisk
    /\ InitCommon

----------------------------------------------------------------------------
(* main, lines 96-184 *)

\* lines 103-113
SelectWriter ==
    /\ pc = "start"
    /\ export_type' = Normalise(export_type)
    /\ writer' = PickWriter(export_type')
    /\ pc' = IF writer' = NoWriter THEN "raised" ELSE "prepare"
    /\ raised' = IF writer' = NoWriter THEN [exc |-> "ValueError", at |-> "main"]
                 ELSE raised
    /\ UNCHANGED <<run, calls_left, use_pandas, debug, skip_image_id, listing,
                   cases, dest, log_file, xlsx_file, df, f_log, patient_ids, idx,
                   count, status, scene, view, entry, skip0, invoked, skipped,
                   prev_skipped>>

\* lines 116-138
Prepare ==
    /\ pc = "prepare"
    /\ dest' = CreateDirectory(dest)
    /\ df' = <<>>
    /\ f_log' = <<>>
    /\ log_file' = IF use_pandas THEN log_file ELSE <<>>
    /\ patient_ids' = SortedPatientIds(listing)
    /\ count' = 0
    /\ idx' = 1
    /\ pc' = "loop"
    /\ UNCHANGED <<run, calls_left, export_type, use_pandas, debug,
                   skip_image_id, listing, cases, writer, xlsx_file, status,
                   scene, view, raised, entry, skip0, invoked, skipped,
                   prev_skipped>>

\* lines 139-147
SkipCase ==
    /\ pc = "loop"
    /\ idx <= Len(patient_ids)
    /\ InList(patient_ids[idx], skip_image_id)
    /\ skip_image_id' = Remove(skip_image_id, patient_ids[idx])
    /\ df' = IF use_pandas
             THEN Append(df, <<patient_ids[idx], STATUS_SKIPPED>>) ELSE df
    /\ f_log' = IF use_pandas THEN f_log
                ELSE Append(f_log, <<patient_ids[idx], "is skipped", STATUS_SKIPPED>>)
    /\ skipped' = skipped \cup {patient_ids[idx]}
    /\ idx' = idx + 1
    /\ UNCHANGED <<pc, run, calls_left, export_type, use_pandas, debug, listing,
                   cases, writer, dest, log_file, xlsx_file, patient_ids, count,
                   status, scene, view, raised, entry, skip0, invoked,
                   prev_skipped>>

\* lines 139-141, 149-158: not skipped; the note of a missing file, and on
\* to the call of line 161
BeginCase ==
    /\ pc = "loop"
    /\ idx <= Len(patient_ids)
    /\ ~InList(patient_ids[idx], skip_image_id)
    /\ df' = IF use_pandas /\ ~SegPathExists(SegPath(patient_ids[idx]))
             THEN Append(df, <<patient_ids[idx], 0>>) ELSE df
    /\ f_log' = IF ~use_pandas /\ ~SegPathExists(SegPath(patient_ids[idx]))
                THEN Append(f_log, <<patient_ids[idx], "doesn't have segmentation", 0>>)
                ELSE f_log
    /\ pc' = "export"
    /\ UNCHANGED <<run, calls_left, export_type, use_pandas, debug,
                   skip_image_id, listing, cases, writer, dest, log_file,
                   xlsx_file, patient_ids, idx, count, status, scene, view,
                   raised, entry, skip0, invoked, skipped, prev_skipped>>

\* line 161 with lines 22-87
ExportSegmentation ==
    /\ pc = "export"
    /\ \E loaded \in LoadOutcomes(SegPath(patient_ids[idx])) :
        LET r == ExportSegmentationResult(SegPath(patient_ids[idx]), loaded,
                                          writer, view)
        IN  /\ scene' = scene \cup r.scene
            /\ dest' = [dest EXCEPT !.files = @ \cup r.files]
            /\ view' = r.view
            /\ status' = IF r.exc = NoExc THEN r.status ELSE status
            /\ raised' = IF r.exc = NoExc THEN raised
                         ELSE [exc |-> r.exc, at |-> "export_segmentation"]
            /\ pc' = IF r.exc = NoExc THEN "record" ELSE "raised"
    /\ invoked' = invoked \cup {patient_ids[idx]}
    /\ UNCHANGED <<run, calls_left, export_type, use_pandas, debug,
                   skip_image_id, listing, cases, writer, log_file, xlsx_file,
                   df, f_log, patient_ids, idx, count, entry, skip0, skipped,
                   prev_skipped>>

\* lines 163-173
RecordStatus ==
    /\ pc = "record"
    /\ df' = IF use_pandas THEN Append(df, <<patient_ids[idx], status[1]>>) ELSE df
    /\ f_log' = IF use_pandas THEN f_log
                ELSE Append(f_log, <<patient_ids[idx], "exported", status[1]>>)
    /\ scene' = SceneClear(scene)
    /\ count' = count + 1
    /\ idx' = idx + 1
    /\ pc' = IF DebugStop(debug, count') THEN "summary" ELSE "loop"
    /\ UNCHANGED <<run, calls_left, export_type, use_pandas, debug,
                   skip_image_id, listing, cases, writer, dest, log_file,
                   xlsx_file, patient_ids, status, view, raised, entry, skip0,
                   invoked, skipped, prev_skipped>>

LoopOver == pc = "summary" \/ (pc = "loop" /\ idx > Len(patient_ids))

\* lines 176-184
Finish ==
    /\ LoopOver
    /\ xlsx_file' = IF use_pandas THEN df ELSE xlsx_file
    /\ log_file' = IF use_pandas THEN log_file ELSE f_log
    /\ pc' = "done"
    /\ UNCHANGED <<run, calls_left, export_type, use_pandas, debug,
                   skip_image_id, listing, cases, writer, dest, df, f_log,
                   patient_ids, idx, count, status, scene, view, raised, entry,
                   skip0, invoked, skipped, prev_skipped>>

\* lines 204-211 once more: main is called again with the same list object
\* and the same other arguments
CallAgain ==
    /\ pc = "done"
    /\ calls_left > 0
    /\ calls_left' = calls_left - 1
    /\ run' = run + 1
    /\ pc' = "start"
    /\ entry' = [export_type |-> export_type, skip |-> skip_image_id,
                 dest |-> dest, log_file |-> log_file, xlsx_file |-> xlsx_file,
                 scene |-> scene]
    /\ prev_skipped' = skipped
    /\ skipped' = {}
    /\ invoked' = {}
    /\ writer' = NoWriter
    /\ df' = <<>>
    /\ f_log' = <<>>
    /\ patient_ids' = <<>>
    /\ idx' = 1
    /\ count' = 0
    /\ status' = <<>>
    /\ UNCHANGED <<export_type, use_pandas, debug, skip_image_id, listing,
                   cases, dest, log_file, xlsx_file, scene, view, raised, skip0>>

Next ==
    \/ SelectWriter
    \/ Prepare
    \/ SkipCase
    \/ BeginCase
    \/ ExportSegmentation
    \/ RecordStatus
    \/ Finish
    \/ CallAgain

Spec == Init /\ [][Next]_vars

SpecDebug == InitDebug /\ [][Next]_vars

----------------------------------------------------------------------------
(* What the claims speak of *)

\* the outcome record of the call: DataFrame rows or log lines
Recorded == IF use_pandas THEN df ELSE f_log

EntriesOf(p) == SelectSeq(Recorded, LAMBDA e : e[1] = p)

\* an entry without its case id: the status code of a row, the text of a line
Outcome(e) == Tail(e)

\* the cases whose loop iteration is over
Visited == {patient_ids[i] : i \in 1..(idx - 1)}

MeshFiles(files) == {f \in files : f[3] # "mtl"}

MeshPairs(files) == {<<f[1], f[2]>> : f \in MeshFiles(files)}

\* the (case, segment) pairs of the cases in S that are not in the call's
\* skip-list, have their file, a closed surface, and a retrievable segment
Qualifying(S) ==
    UNION {{<<p, k>> : k \in {j \in 1..Len(cases[p].segs) : cases[p].segs[j]}} :
           p \in {q \in S : /\ ~InList(q, entry.skip)
                             /\ cases[q].has_seg
                             /\ cases[q].closed}}

Kind(p) ==
    IF ~cases[p].has_seg THEN "missing"
    ELSE IF ~cases[p].closed THEN "failed"
    ELSE IF cases[p].segs = <<>> THEN "empty"
    ELSE "segments"

RaisedIn(where) == pc = "raised" /\ raised.at = where

\* s without the first occurrence of every id in V, the rest in order
RECURSIVE MinusFirstOf(_, _, _)
MinusFirstOf(s, V, seen) ==
    IF s = <<>> THEN <<>>
    ELSE IF Head(s) \in V /\ Head(s) \notin seen
         THEN MinusFirstOf(Tail(s), V, seen \cup {Head(s)})
         ELSE <<Head(s)>> \o MinusFirstOf(Tail(s), V, seen \cup {Head(s)})

ExpectedWriter(t) ==
    CASE t = <<"o", "b", "j">> -> "vtkOBJExporter"
      [] t = <<"s", "t", "l">> -> "vtkSTLWriter"
      [] t = <<"p", "l", "y">> -> "vtkPLYWriter"
      [] t = <<"g", "l", "t", "f">> -> "vtkGLTFExporter"
      [] OTHER -> NoWriter

----------------------------------------------------------------------------
(* C1: for every case the skip branch took, the record holds exactly one   *)
(* entry for it, with status -2; export_segmentation was not invoked for   *)
(* it and the destination holds no file of it; and the skip-list holds one *)
(* occurrence of its id fewer than when main was called.                   *)
C1_SkippedCase ==
    \A p \in skipped :
        /\ EntriesOf(p) = << IF use_pandas THEN <<p, -2>>
                             ELSE <<p, "is skipped", -2>> >>
        /\ p \notin invoked
        /\ \A f \in dest.files : f[1] # p
        /\ CountOcc(skip_image_id, p) = CountOcc(entry.skip, p) - 1

C1_Witness ==
    /\ pc = "done"
    /\ \E p \in skipped :
        /\ CountOcc(entry.skip, p) = 2
        /\ \E f \in entry.dest.files : f[1] = p
    /\ invoked # {}

(* C2: when export_segmentation returns for a case whose file exists, whose *)
(* closed surface was made and that has at least one segment, written with  *)
(* the STL, PLY or OBJ writer, the number of mesh files (OBJ: of mesh and   *)
(* material pairs) written for the case equals the returned status.         *)
C2_FilesEqualStatus ==
    (/\ pc = "record"
     /\ Kind(patient_ids[idx]) = "segments"
     /\ writer \in {"vtkSTLWriter", "vtkPLYWriter", "vtkOBJExporter"})
    => Cardinality({f \in MeshFiles(dest.files) : f[1] = patient_ids[idx]})
         = status[1]

(* C3: a case whose file is missing, a case whose closed surface fails and  *)
(* a case with no segment are each recorded once, with outcomes that differ *)
(* between the three kinds, and none of the three ends the batch.           *)
C3_RecoverableOutcomes ==
    /\ \A p \in Visited \ skipped :
        Kind(p) # "segments" => Len(EntriesOf(p)) = 1
    /\ \A p \in Visited \ skipped : \A q \in Visited \ skipped :
        (Kind(p) # "segments" /\ Kind(q) # "segments" /\ Kind(p) # Kind(q))
        => \A i \in 1..Len(EntriesOf(p)) : \A j \in 1..Len(EntriesOf(q)) :
            Outcome(EntriesOf(p)[i]) # Outcome(EntriesOf(q)[j])
    /\ RaisedIn("export_segmentation") => Kind(patient_ids[idx]) = "segments"

(* C4: between iterations and at the summary, the record holds exactly one *)
(* entry per visited case, in the sorted order of the case ids; what is    *)
(* persisted at the end is that record.                                    *)
C4_OneEntryPerCase ==
    /\ pc \in {"loop", "summary", "done"}
       => [i \in 1..Len(Recorded) |-> Recorded[i][1]]
            = SubSeq(patient_ids, 1, idx - 1)
    /\ pc = "done"
       => (IF use_pandas THEN xlsx_file ELSE log_file) = Recorded

(* C5: main picks the writer of the lowered export_type, obj, stl, ply or  *)
(* gltf, and for any other string raises the unsupported-format error with *)
(* the destination directory, the summary files, the scene and the         *)
(* skip-list as the call found them and no case loaded.                    *)
C5_UnsupportedBeforeIO ==
    /\ pc # "start"
       => /\ RaisedIn("main") <=> ExpectedWriter(Lower(entry.export_type)) = NoWriter
          /\ writer = ExpectedWriter(Lower(entry.export_type))
    /\ RaisedIn("main")
       => /\ raised.exc = "ValueError"
          /\ dest = entry.dest
          /\ log_file = entry.log_file
          /\ xlsx_file = entry.xlsx_file
          /\ scene = entry.scene
          /\ skip_image_id = entry.skip
          /\ invoked = {}

C5_Witness ==
    /\ RaisedIn("main")
    /\ entry.dest.exists /\ entry.dest.files # {}
    /\ entry.log_file # NoFile
    /\ entry.skip # <<>>
    /\ Len(listing) > 1

(* C6: once the writer is picked, export_segmentation never raises the     *)
(* unsupported-format error.                                               *)
C6_NoDispatchError ==
    ~(RaisedIn("export_segmentation") /\ raised.exc = "ValueError")

(* C7 as stated: a debug run over 12 or more case directories that reaches *)
(* the summary has invoked export_segmentation for exactly 11 cases,       *)
(* prints 11 and has left the cases after them unvisited.                  *)
C7_ExactlyElevenWhateverSkipList ==
    (pc = "done" /\ debug /\ Len(patient_ids) >= DebugCap + 2)
    => /\ count = DebugCap + 1
       /\ Cardinality(invoked) = DebugCap + 1
       /\ idx <= Len(patient_ids)

(* C7 as amended: in a debug run the counter and the number of cases       *)
(* export_segmentation is invoked for never exceed 11; skipped cases are   *)
(* not counted; a run that reaches the summary has processed the first     *)
(* min(11, number of case directories not in the skip-list) such cases,    *)
(* prints that number, and when it is 11 the loop stopped right after the  *)
(* 11th processed case.                                                    *)
C7_DebugCap ==
    debug =>
        /\ count <= DebugCap + 1
        /\ Cardinality(invoked) <= DebugCap + 1
        /\ pc = "loop" => count <= DebugCap
        /\ pc = "done"
           => /\ count = Min(DebugCap + 1,
                             Cardinality({p \in Range(patient_ids) :
                                            ~InList(p, entry.skip)}))
              /\ Cardinality(invoked) = count
              /\ invoked = Visited \ skipped
              /\ skipped = {p \in Visited : InList(p, entry.skip)}
              /\ count = DebugCap + 1 => patient_ids[idx - 1] \in invoked

C7_Witness ==
    /\ pc = "done" /\ debug
    /\ Len(patient_ids) >= DebugCap + 2
    /\ count = DebugCap + 1
    /\ skipped # {}

(* C8 as stated: after a run that reaches the summary, the mesh files of   *)
(* the destination are exactly the (case, segment) pairs of all case       *)
(* directories that are not in the skip-list, have their file, a closed    *)
(* surface and a retrievable segment.                                      *)
C8_FilesAreAllQualifyingPairs ==
    pc = "done" => MeshPairs(dest.files) = Qualifying(Range(patient_ids))

(* C8 as amended: the same, over the cases the loop visited (all of them   *)
(* unless the debug cap ended the loop).                                   *)
C8_FilesAreVisitedQualifyingPairs ==
    pc = "done" => MeshPairs(dest.files) = Qualifying(Visited)

C8_Witness ==
    /\ pc = "done"
    /\ entry.dest.files # {}
    /\ skipped # {}
    /\ MeshPairs(dest.files) # {}
    /\ \E p \in Visited \ skipped : \E k \in 1..Len(cases[p].segs) :
         /\ cases[p].has_seg /\ cases[p].closed /\ ~cases[p].segs[k]

(* C9: when export_segmentation is invoked the scene holds no node; the    *)
(* scene never holds more than the node of the case being processed, and   *)
(* is empty again before the next case, whatever export_segmentation       *)
(* returned.                                                               *)
C9_SceneCleared ==
    /\ pc \in {"loop", "export", "summary", "done"} => scene = {}
    /\ pc = "record" => scene = {patient_ids[idx]}
    /\ Cardinality(scene) <= 1

C9_Witness ==
    /\ pc = "export"
    /\ idx > 1
    /\ Len(Recorded) > 0
    /\ Recorded[Len(Recorded)][Len(Recorded[Len(Recorded)])] = STATUS_FAILED
    /\ \E i \in 1..Len(Recorded) : Outcome(Recorded[i]) \in {<<0>>, <<"exported", 0>>}

(* C10 as stated: in a second call with the same list object, no case the  *)
(* first call skipped is skipped, and export_segmentation is invoked on    *)
(* each of them.                                                           *)
C10_SecondCallSkipsNone ==
    run = 2 => /\ prev_skipped \cap skipped = {}
               /\ pc = "done" => prev_skipped \subseteq invoked

(* C10 as amended: when main returns, the list is the list main was called *)
(* with minus the first occurrence of each id of a visited case, the rest  *)
(* in order; in a second call with the same list object, a case the first  *)
(* call skipped and the second call visits is skipped again when the       *)
(* original list named it more than once, and export_segmentation is       *)
(* invoked on it otherwise.                                                *)
C10_SkipListConsumed ==
    /\ pc = "done" => skip_image_id = MinusFirstOf(entry.skip, Visited, {})
    /\ run = 2
       => \A p \in prev_skipped \cap Visited :
            IF CountOcc(skip0, p) >= 2 THEN p \in skipped /\ p \notin invoked
            ELSE p \in invoked /\ p \notin skipped

C10_Witness ==
    /\ run = 2 /\ pc = "done"
    /\ prev_skipped \cap invoked # {}
    /\ skip_image_id # <<>>
    /\ Len(skip0) = 2

====
